---- MODULE Spec2Model ----
(***************************************************************************)
(* Model of the Merkle allowlist engine (src/helpers/MerkleTree.ts) and of *)
(* the minting front-end that consumes it (src/Home.tsx and the            *)
(* useCandyMachineV3 hook).                                                *)
(*                                                                         *)
(* Byte strings are sequences whose elements are either a plain byte       *)
(* <<"b", n>> or a 32-byte digest block <<"keccak", input>>.  keccak_256   *)
(* is modelled as a collision-free function: the digest of an input is the *)
(* term that records that input.                                           *)
(***************************************************************************)
EXTENDS Integers, Sequences, FiniteSets, TLC

\* ------------------------------------------------------------------ bounds
\* longest identity list a tree is built from
MaxLen == 5
\* longest identity list whose proofs and root the caller tampers with
MaxTamperLen == 3
\* longest identity list next to which a second tree is built
MaxOtherLen == 3
\* most distinct identities of a list that is built in every order
MaxDistinct == 4

\* a character of an identity string, by its code
Char(n) == <<"c", n>>

\* the identities of the model: "a", "b", "c" may be put on an allowlist,
\* "dave" is on none
Ids == { <<Char(97)>>, <<Char(98)>>, <<Char(99)>> }
Outsider == <<Char(100), Char(97), Char(118), Char(101)>>
Items == Ids \cup {Outsider}

RECURSIVE ListsUpTo(_)
ListsUpTo(n) ==
  IF n = 0 THEN { <<>> }
  ELSE LET shorter == ListsUpTo(n - 1)
       IN  shorter \cup { Append(l, x) : l \in { s \in shorter : Len(s) = n - 1 }, x \in Ids }

Lists == ListsUpTo(MaxLen)

\* --------------------------------------------------------------- variables
VARIABLES
  digestOrder, \* orientation of the byte order of keccak digests (1 or -1)
  built,       \* has the constructor run
  data,        \* MerkleTree.data
  leafs,       \* MerkleTree.leafs
  layers,      \* MerkleTree.layers
  idx,         \* index the caller last passed to getProof
  proof,       \* proof the caller holds
  root,        \* root the caller holds
  tamper,      \* what the caller changed in the held proof / root
  ret,         \* record of the last call and its outcome
  otherTree,   \* a second MerkleTree object, once one is built
  \* --- the minting front-end (Home.tsx and the useCandyMachineV3 hook)
  publicKey,      \* useWallet().publicKey: the connected wallet, or "none"
  candyMachine,   \* hook state candyMachine: has it been fetched
  remaining,      \* hook state items.remaining
  refreshing,     \* a refresh() fetch is in flight
  guardsAndGroups,\* hook state guardsAndGroups
  fetching,       \* wallets whose guard-group fetch is in flight
  minting,        \* hook state status.minting
  retryCount,     \* Home state retryCount
  alert,          \* Home state alertState.message
  mintedItems,    \* Home state mintedItems.length
  pending,        \* startMint calls awaiting candyMachineV3.mint
  timers,         \* startMint calls scheduled by setTimeout
  mintCall,       \* the last call of candyMachineV3.mint
  allowLists,     \* hook option candyMachineOpts.allowLists
  builds,         \* MerkleTree objects the hook's proofMemo has constructed
  verified,       \* the last call of proofMemo.verifyProof
  hook,           \* the useCandyMachineV3 the page is built with
  settled,        \* how the last candyMachineV3.mint promise settled
  mintCounter     \* guardsAndGroups.default.mintLimit.mintCounter.count

treeVars == <<digestOrder, built, data, leafs, layers>>
callerVars == <<idx, proof, root, tamper>>
merkleVars == <<digestOrder, built, data, leafs, layers, idx, proof, root, tamper,
                ret, otherTree>>
homeVars == <<publicKey, candyMachine, remaining, refreshing, guardsAndGroups,
              fetching, minting, retryCount, alert, mintedItems, pending,
              timers, mintCall, allowLists, builds, verified, hook, settled,
              mintCounter>>
\* the hook in use, and what only its proofMemo and its callers touch
memoVars == <<allowLists, builds, verified, hook>>
vars == <<merkleVars, homeVars>>

\* ------------------------------------------------------------ byte strings
\* Every JavaScript value is a pair <<tag, payload>>.
Undefined == <<"undefined", 0>>
TypeError == <<"TypeError", 0>>
\* what a call that returns an object (a tree, a proof array) hands back
Returned == <<"returned", 0>>
JsTrue == <<"bool", TRUE>>
JsFalse == <<"bool", FALSE>>
JsBool(b) == <<"bool", b>>

Byte(n) == <<"b", n>>

\* a Buffer over a list of bytes
Buf(bytes) == <<"buf", bytes>>

\* Buffer.from(string): one byte per character, the character's code; a
\* string chosen so that its bytes are a 32-byte digest gives that block
BufferFrom(s) ==
  Buf([i \in 1..Len(s) |-> IF s[i][1] = "c" THEN Byte(s[i][2]) ELSE s[i]])

\* keccak_256.digest over a byte list: a 32-byte block
Keccak(input) == <<"keccak", input>>

\* the bytes [...buffer] spreads: a digest spreads as its one 32-byte block
Spread(buffer) == IF buffer[1] = "buf" THEN buffer[2] ELSE <<buffer>>

IsBuffer(x) == x[1] \in {"buf", "keccak"}

RECURSIVE CmpSeq(_, _)
RECURSIVE CmpElem(_, _)
CmpElem(x, y) ==
  IF x[1] # y[1] THEN (IF x[1] = "b" THEN -1 ELSE 1)
  ELSE IF x[1] = "b"
       THEN (IF x[2] < y[2] THEN -1 ELSE IF x[2] > y[2] THEN 1 ELSE 0)
       ELSE CmpSeq(x[2], y[2])
CmpSeq(s, t) ==
  IF s = <<>> THEN (IF t = <<>> THEN 0 ELSE -1)
  ELSE IF t = <<>> THEN 1
  ELSE LET c == CmpElem(Head(s), Head(t))
       IN  IF c # 0 THEN c ELSE CmpSeq(Tail(s), Tail(t))

\* Buffer.compare on two digests: a total order on digests, in one of two
\* orientations
BufferCompare(a, b) == digestOrder * CmpElem(a, b)

\* ------------------------------------------------------------- MerkleTree
\* mutant: every leaf carries a byte of external state, the number of trees
\* built before this one
buildLeavesSalted(d) ==
  [i \in 1..Len(d) |->
     Buf(BufferFrom(d[i])[2] \o <<Byte(IF built THEN 1 ELSE 0)>>)]

\* mutant: the leaves are pushed in reverse order
buildLeavesReversed(d) == [i \in 1..Len(d) |-> BufferFrom(d[Len(d) + 1 - i])]

\* static buildLeaves(data)
buildLeaves(d) == [i \in 1..Len(d) |-> BufferFrom(d[i])]

\* mutant: leaves are hashed with the tag of internal nodes
nodeHashInternalTag(buf) ==
  IF ~IsBuffer(buf) THEN TypeError
  ELSE Keccak(<<Byte(1)>> \o Spread(buf))

\* mutant: the leaf hash covers the tag only, not the identity bytes
nodeHashTagOnly(buf) ==
  IF ~IsBuffer(buf) THEN TypeError
  ELSE Keccak(<<Byte(0)>>)

\* static nodeHash(data): spreading undefined throws a TypeError
nodeHash(buf) ==
  IF ~IsBuffer(buf) THEN TypeError
  ELSE Keccak(<<Byte(0)>> \o Spread(buf))

\* mutant: an unpaired node is hashed with itself
internalHashSelfPair(first, second) ==
  LET other == IF second = Undefined THEN first ELSE second
      fst == IF BufferCompare(first, other) <= 0 THEN first ELSE other
      snd == IF BufferCompare(first, other) <= 0 THEN other ELSE first
  IN  Keccak(<<Byte(1)>> \o Spread(fst) \o Spread(snd))

\* mutant: the pair is hashed in positional order, without the sort
internalHashUnsorted(first, second) ==
  IF second = Undefined THEN first
  ELSE Keccak(<<Byte(1)>> \o Spread(first) \o Spread(second))

\* static internalHash(first, second)
internalHash(first, second) ==
  IF second = Undefined THEN first
  ELSE LET fst == IF BufferCompare(first, second) <= 0 THEN first ELSE second
           snd == IF BufferCompare(first, second) <= 0 THEN second ELSE first
       IN  Keccak(<<Byte(1)>> \o Spread(fst) \o Spread(snd))

\* arr[i] of a JavaScript array, 0-based: undefined outside the array
At(arr, i) == IF i >= 0 /\ i < Len(arr) THEN arr[i + 1] ELSE Undefined

\* mutant: the partner of an even index is taken at idx - 1
reduceLayerPrev(hashes) ==
  [j \in 1..((Len(hashes) + 1) \div 2) |->
     internalHash(At(hashes, 2 * (j - 1)), At(hashes, 2 * (j - 1) - 1))]

\* the reduce of the constructor: one element per even index
reduceLayer(hashes) ==
  [j \in 1..((Len(hashes) + 1) \div 2) |->
     internalHash(At(hashes, 2 * (j - 1)), At(hashes, 2 * (j - 1) + 1))]

\* mutant: the loop stops without pushing the single-element layer
RECURSIVE buildLayersNoTop(_)
buildLayersNoTop(hashes) ==
  IF Len(hashes) <= 1 THEN <<>>
  ELSE <<hashes>> \o buildLayersNoTop(reduceLayer(hashes))

\* the while loop of the constructor
RECURSIVE buildLayers(_)
buildLayers(hashes) ==
  IF Len(hashes) = 0 THEN <<>>
  ELSE IF Len(hashes) = 1 THEN <<hashes>>
  ELSE <<hashes>> \o buildLayers(reduceLayer(hashes))

\* getRoot(): layers[layers.length - 1][0]; indexing undefined throws
getRootOf(ls) ==
  IF Len(ls) = 0 THEN TypeError
  ELSE At(ls[Len(ls)], 0)

getRoot == getRootOf(layers)

\* mutant: the sibling is taken at idx + 1
Xor1Plus(i) == i + 1

\* mutant: the index is not halved from one layer to the next
HalfKeep(i) == i

\* idx ^ 1 and Math.floor(idx / 2) on (possibly negative) integers
Xor1(i) == IF i % 2 = 0 THEN i + 1 ELSE i - 1
Half(i) == i \div 2

\* mutant: below the root layer a node without a sibling contributes itself
RECURSIVE proofFromPadded(_, _, _)
proofFromPadded(ls, k, i) ==
  IF k > Len(ls) THEN <<>>
  ELSE LET sibling == Xor1(i)
           here == IF sibling < Len(ls[k]) THEN <<At(ls[k], sibling)>>
                   ELSE IF k < Len(ls) THEN <<At(ls[k], i)>>
                   ELSE <<>>
       IN  here \o proofFromPadded(ls, k + 1, Half(i))

\* getProof(idx): the reduce over every layer, the root layer included
RECURSIVE proofFrom(_, _, _)
proofFrom(ls, k, i) ==
  IF k > Len(ls) THEN <<>>
  ELSE LET sibling == Xor1(i)
           here == IF sibling < Len(ls[k]) THEN <<At(ls[k], sibling)>> ELSE <<>>
       IN  here \o proofFrom(ls, k + 1, Half(i))

getProof(i) == proofFrom(layers, 1, i)

\* the for loop of the verifiers
RECURSIVE foldProof(_, _)
foldProof(pair, p) ==
  IF p = <<>> THEN pair
  ELSE foldProof(internalHash(pair, Head(p)), Tail(p))

\* pair.equals(root): throws unless root is a Buffer
bufEquals(pair, r) == IF IsBuffer(r) THEN JsBool(pair = r) ELSE TypeError

\* mutant: the recomputed hash is compared with the tree's own root
verifyProofOwnRoot(i, p, r) ==
  LET leafHash == nodeHash(At(leafs, i))
  IN  IF leafHash = TypeError THEN TypeError
      ELSE bufEquals(foldProof(leafHash, p), getRoot)

\* verifyProof(idx, proof, root)
verifyProof(i, p, r) ==
  LET leafHash == nodeHash(At(leafs, i))
  IN  IF leafHash = TypeError THEN TypeError
      ELSE bufEquals(foldProof(leafHash, p), r)

\* mutant: verifyRoot compares the leaf hash with the root, without the proof
verifyRootLeafOnly(i, p, r) ==
  LET leafHash == nodeHash(At(leafs, i))
  IN  IF leafHash = TypeError THEN TypeError
      ELSE bufEquals(leafHash, r)

\* verifyRoot(idx, proof, root)
verifyRoot(i, p, r) ==
  LET leafHash == nodeHash(At(leafs, i))
  IN  IF leafHash = TypeError THEN TypeError
      ELSE bufEquals(foldProof(leafHash, p), r)

\* verifyClaim(item, proof)
verifyClaim(item, p) ==
  LET pair == foldProof(nodeHash(BufferFrom(item)), p)
  IN  IF getRoot = TypeError THEN TypeError
      ELSE bufEquals(pair, getRoot)

\* ----------------------------------------------------------------- actions
\* ret: the last call, its leaf argument (an index or an item) and its
\* outcome; the proof and root arguments of a verifier call are the held ones
NoCall == [op |-> "none", idx |-> 0, item |-> <<>>, out |-> Undefined]

Call(op, i, item, out) == [op |-> op, idx |-> i, item |-> item, out |-> out]

\* no second tree
NoTree == [built |-> FALSE, data |-> <<>>, leafs |-> <<>>, layers |-> <<>>]

MerkleInit ==
  /\ digestOrder \in {1, -1}
  /\ built = FALSE
  /\ data = <<>>
  /\ leafs = <<>>
  /\ layers = <<>>
  /\ idx = 0
  /\ proof = <<>>
  /\ root = Undefined
  /\ tamper = "unset"
  /\ ret = NoCall
  /\ otherTree = NoTree

\* A verifier call changes neither the tree nor what the caller holds, only
\* ret, and every other call overwrites ret: the states that follow a verifier
\* call are those that follow the state before it, so calls are modelled from
\* there.  The same holds once a second tree is built: no call on the first
\* tree reads it.
Ready ==
  /\ ret.op \notin {"verifyProof", "verifyRoot", "verifyClaim"}
  /\ otherTree = NoTree

\* new MerkleTree(d)
Construct(d) ==
  /\ built' = TRUE
  /\ data' = d
  /\ leafs' = buildLeaves(d)
  /\ layers' = buildLayers([i \in 1..Len(d) |-> nodeHash(buildLeaves(d)[i])])
  /\ ret' = Call("constructor", 0, <<>>, Returned)
  /\ UNCHANGED <<digestOrder, idx, proof, root, tamper>>
  /\ UNCHANGED otherTree
  /\ UNCHANGED homeVars

\* tree.getRoot(): the caller keeps the root it returns
GetRoot ==
  /\ built /\ Ready
  /\ root' = IF getRoot = TypeError THEN root ELSE getRoot
  /\ tamper' = IF tamper = "root" THEN "none" ELSE tamper
  /\ ret' = Call("getRoot", 0, <<>>, getRoot)
  /\ UNCHANGED <<treeVars, idx, proof>>
  /\ UNCHANGED otherTree
  /\ UNCHANGED homeVars

\* mutant: getProof consumes the layers it walks
GetProofConsuming(i) ==
  /\ built /\ Ready /\ tamper # "root"
  /\ idx' = i
  /\ proof' = getProof(i)
  /\ tamper' = "none"
  /\ ret' = Call("getProof", i, <<>>, Returned)
  /\ layers' = IF Len(layers) > 1 THEN Tail(layers) ELSE layers
  /\ UNCHANGED <<digestOrder, built, data, leafs, root>>
  /\ UNCHANGED otherTree
  /\ UNCHANGED homeVars

\* tree.getProof(i), in and out of range: the caller keeps the proof
GetProof(i) ==
  /\ built /\ Ready /\ tamper # "root"
  /\ idx' = i
  /\ proof' = getProof(i)
  /\ tamper' = "none"
  /\ ret' = Call("getProof", i, <<>>, Returned)
  /\ UNCHANGED <<treeVars, root>>
  /\ UNCHANGED otherTree
  /\ UNCHANGED homeVars

\* the held triple (leaf idx, proof, root) is as the tree returned it
Pristine ==
  /\ built /\ Ready
  /\ Len(data) <= MaxTamperLen
  /\ tamper = "none"
  /\ idx >= 0 /\ idx < Len(data)
  /\ root = getRoot

\* digests a caller may put in place of a proof element or of the root
TamperValues == {nodeHash(BufferFrom(Outsider)), root}

\* the caller replaces one proof element by a different value
ReplaceElement(k, v) ==
  /\ Pristine
  /\ k \in 1..Len(proof)
  /\ v # proof[k]
  /\ proof' = [proof EXCEPT ![k] = v]
  /\ tamper' = "element"
  /\ ret' = NoCall
  /\ UNCHANGED <<treeVars, idx, root>>
  /\ UNCHANGED otherTree
  /\ UNCHANGED homeVars

\* the caller replaces the root by a different value
ReplaceRoot(v) ==
  /\ Pristine
  /\ v # root
  /\ root' = v
  /\ tamper' = "root"
  /\ ret' = NoCall
  /\ UNCHANGED <<treeVars, idx, proof>>
  /\ UNCHANGED otherTree
  /\ UNCHANGED homeVars

\* the caller drops trailing proof elements, keeping the first n
Truncate(n) ==
  /\ Pristine
  /\ n < Len(proof)
  /\ proof' = SubSeq(proof, 1, n)
  /\ tamper' = "truncated"
  /\ ret' = NoCall
  /\ UNCHANGED <<treeVars, idx, root>>
  /\ UNCHANGED otherTree
  /\ UNCHANGED homeVars

\* the caller appends a further element
Extend(v) ==
  /\ Pristine
  /\ proof' = Append(proof, v)
  /\ tamper' = "extended"
  /\ ret' = NoCall
  /\ UNCHANGED <<treeVars, idx, root>>
  /\ UNCHANGED otherTree
  /\ UNCHANGED homeVars

\* a triple is verified for the leaf it was issued for and, as issued for a
\* short list, for every other index
LeafChoice(i) == i = idx \/ (tamper = "none" /\ Len(data) <= MaxTamperLen)

\* tree.verifyProof(i, proof, root)
VerifyProof(i) ==
  /\ built /\ Ready /\ tamper # "unset" /\ root # Undefined
  /\ LeafChoice(i)
  /\ ret' = Call("verifyProof", i, <<>>, verifyProof(i, proof, root))
  /\ UNCHANGED <<treeVars, callerVars>>
  /\ UNCHANGED otherTree
  /\ UNCHANGED homeVars

\* tree.verifyRoot(i, proof, root)
VerifyRoot(i) ==
  /\ built /\ Ready /\ tamper = "none" /\ root # Undefined
  /\ i = idx
  /\ ret' = Call("verifyRoot", i, <<>>, verifyRoot(i, proof, root))
  /\ UNCHANGED <<treeVars, callerVars>>
  /\ UNCHANGED otherTree
  /\ UNCHANGED homeVars

\* tree.verifyClaim(item, proof)
VerifyClaim(item) ==
  /\ built /\ Ready /\ tamper \notin {"unset", "root"}
  /\ tamper = "none" \/ item = At(data, idx)
  /\ ret' = Call("verifyClaim", 0, item, verifyClaim(item, proof))
  /\ UNCHANGED <<treeVars, callerVars>>
  /\ UNCHANGED otherTree
  /\ UNCHANGED homeVars

\* the fields the constructor gives a tree built from d
NewTree(d) ==
  [built |-> TRUE,
   data |-> d,
   leafs |-> buildLeaves(d),
   layers |-> buildLayers([i \in 1..Len(d) |-> nodeHash(buildLeaves(d)[i])])]

\* lists a second tree is built from: the first tree's list again, and, next
\* to a short list, every short list (its re-orderings among them)
ShortLists == ListsUpTo(MaxOtherLen)

OtherLists == IF Len(data) <= MaxOtherLen THEN ShortLists ELSE {data}

\* new MerkleTree(d) once more, while the first tree is alive: a second
\* object with its own fields
BuildOther(d) ==
  /\ built /\ Ready /\ tamper = "unset"
  /\ otherTree' = NewTree(d)
  /\ ret' = Call("constructor", 0, <<>>, Returned)
  /\ UNCHANGED <<treeVars, callerVars>>
  /\ UNCHANGED homeVars

\* an identity whose bytes are the two children of the internal node j of
\* layer k (0-based), smaller child first
ForgedIdentity(k, j) ==
  LET a == layers[k][2 * j + 1]
      b == layers[k][2 * j + 2]
  IN  IF BufferCompare(a, b) <= 0 THEN <<a, b>> ELSE <<b, a>>

\* the caller presents an internal node as a leaf: verifyClaim with the bytes
\* of the node's children as the identity and the node's own proof path
ReplayNode(k, j) ==
  /\ built /\ Ready /\ tamper = "unset"
  /\ k \in 1..(Len(layers) - 1)
  /\ j \in 0..((Len(layers[k]) \div 2) - 1)
  /\ LET path == proofFrom(layers, k + 1, j)
     IN  /\ proof' = path
         /\ ret' = Call("verifyClaim", j, ForgedIdentity(k, j),
                        verifyClaim(ForgedIdentity(k, j), path))
  /\ idx' = j
  /\ tamper' = "replay"
  /\ UNCHANGED <<treeVars, root>>
  /\ UNCHANGED otherTree
  /\ UNCHANGED homeVars

\* ------------------------------------------------- the minting front-end
\* most items the candy machine has left
MaxItems == 1
\* most startMint calls awaiting a mint or a retry timer at one time
MaxCalls == 1
\* most MerkleTree objects one hook instance constructs
MaxBuilds == 3
\* most rate-limit failures in one chain of retries
MaxFailures == 3
\* highest value of a mint counter
MaxMints == 1

Wallets == {"w1", "w2"}

\* the wallets for which the allowlist verification done while the guard
\* groups are parsed (verifyProof: proofMemo.verifyProof) is true
AllowedWallets == {"w1"}

\* what the on-chain guards say of the mint: open, not started yet, or priced
\* above what the wallet holds
Gates == {"open", "not started", "cannot pay"}

\* guardsAndGroups = {}: no guard group has been fetched
NoGroups ==
  [loaded |-> FALSE, wallet |-> "none", allowed |-> TRUE,
   isStarted |-> TRUE, canPayFor |-> 10]

\* the guards object built by the guard-group effect for wallet w
parseGuardGroup(w, gate) ==
  [loaded |-> TRUE, wallet |-> w, allowed |-> w \in AllowedWallets,
   isStarted |-> gate # "not started",
   canPayFor |-> IF gate = "cannot pay" THEN 0 ELSE 10]

\* parseGuardStates(guards): the states shown for a guard group
parseGuardStates(g) ==
  [isStarted |-> g.isStarted, canPayFor |-> g.canPayFor,
   isWalletWhitelisted |-> g.allowed]

\* Home's guardStates memo, with its fallback object
guardStatesOf(g) ==
  IF g.loaded THEN parseGuardStates(g)
  ELSE [isStarted |-> TRUE, canPayFor |-> 10, isWalletWhitelisted |-> TRUE]

guardStates == guardStatesOf(guardsAndGroups)

\* what a startMint callback closes over in the render that created it
Closure ==
  [publicKey |-> publicKey, guardStates |-> guardStates,
   retryCount |-> retryCount, groups |-> guardsAndGroups,
   candyMachine |-> candyMachine, remaining |-> remaining,
   \* the guard objects it holds are those of the hook state
   current |-> TRUE,
   \* rate-limit failures of the calls whose timers led to this call
   failures |-> 0]

NoMintCall ==
  [made |-> FALSE, sent |-> FALSE, payer |-> "none", loaded |-> FALSE,
   isWalletWhitelisted |-> TRUE, failures |-> 0]

\* the hook files: the two built on merkletreejs, whose mint returns from its
\* finally block, and the one built on helpers/MerkleTree
Hooks == {"merkletreejs", "MerkleTree"}

\* no mint promise settled in the last step
NoSettle == [outcome |-> "none", promise |-> "none", counted |-> FALSE]

\* alert, mintCall and settled hold what the last step did: a step that
\* raises no alert, calls no mint and settles none leaves them empty
Quiet == alert' = "" /\ mintCall' = NoMintCall /\ settled' = NoSettle

\* candyMachineOpts of the hook: no allowLists, an empty array, or one group
NoAllowLists == [given |-> FALSE, groups |-> <<>>]
Labels == {"default", "vip"}
AllowListOptions ==
  {NoAllowLists, [given |-> TRUE, groups |-> <<>>]}
    \cup { [given |-> TRUE, groups |-> <<[groupLabel |-> g, list |-> l]>>] :
             g \in Labels, l \in ShortLists }

NoVerify ==
  [called |-> FALSE, publicKey |-> "none", merkleRoot |-> Undefined, label |-> "",
   out |-> Undefined]

\* the state of Home and of the hook after the first render
HomeStart ==
  /\ publicKey = "none"
  /\ candyMachine = FALSE
  /\ remaining = 0
  /\ refreshing = FALSE
  /\ guardsAndGroups = NoGroups
  /\ fetching = {}
  /\ minting = FALSE
  /\ retryCount = 0
  /\ alert = ""
  /\ mintedItems = 0
  /\ pending = {}
  /\ timers = {}
  /\ mintCall = NoMintCall
  /\ builds = 0
  /\ verified = NoVerify
  /\ settled = NoSettle
  /\ mintCounter = 0

\* Home passes the empty options object candyMachinOps
HomeInit == HomeStart /\ allowLists = NoAllowLists /\ hook = "MerkleTree"

\* publicKey.toString(): the address of a wallet
toString(w) == IF w = "w1" THEN <<Char(97)>> ELSE <<Char(98)>>

\* Array.prototype.indexOf, 0-based
indexOf(l, x) ==
  IF \E i \in 1..Len(l) : l[i] = x
  THEN (CHOOSE i \in 1..Len(l) : l[i] = x /\ \A j \in 1..(i - 1) : l[j] # x) - 1
  ELSE -1

\* candyMachineOpts.allowLists?.length is falsy
noAllowLists == ~allowLists.given \/ Len(allowLists.groups) = 0

\* proofMemo, recomputed in the render that sees the wallet w: merkles holds
\* the tree and the proof of the one configured group
proofMemo(w) ==
  IF noAllowLists THEN UNCHANGED <<built, data, leafs, layers, idx, proof, builds>>
  ELSE IF w = "none" THEN
    /\ built' = FALSE /\ data' = <<>> /\ leafs' = <<>> /\ layers' = <<>>
    /\ idx' = 0 /\ proof' = <<>>
    /\ UNCHANGED builds
  ELSE
    LET stringList == allowLists.groups[1].list
        tree == NewTree(stringList)
        leafIndex == indexOf(stringList, toString(w))
    IN  /\ builds < MaxBuilds
        /\ builds' = builds + 1
        /\ built' = TRUE /\ data' = tree.data /\ leafs' = tree.leafs
        /\ layers' = tree.layers
        /\ idx' = leafIndex
        /\ proof' = IF leafIndex # -1 THEN proofFrom(tree.layers, 1, leafIndex) ELSE <<>>

\* mutant: the wallet is looked at before the allowLists option
hookVerifyProofWalletFirst(merkleRoot, label) ==
  IF publicKey = "none" THEN JsFalse
  ELSE IF noAllowLists THEN JsTrue
  ELSE IF label # allowLists.groups[1].groupLabel THEN JsFalse
  ELSE LET leafIndex == indexOf(allowLists.groups[1].list, toString(publicKey))
       IN  IF leafIndex = -1 THEN JsFalse
           ELSE verifyProof(leafIndex, proof, merkleRoot)

\* mutant: the tree of the configured group answers for every label
hookVerifyProofAnyLabel(merkleRoot, label) ==
  IF noAllowLists THEN JsTrue
  ELSE IF publicKey = "none" THEN JsFalse
  ELSE LET leafIndex == indexOf(allowLists.groups[1].list, toString(publicKey))
       IN  IF leafIndex = -1 THEN JsFalse
           ELSE verifyProof(leafIndex, proof, merkleRoot)

\* proofMemo.verifyProof(merkleRoot, label)
hookVerifyProof(merkleRoot, label) ==
  IF noAllowLists THEN JsTrue
  ELSE IF publicKey = "none" THEN JsFalse
  ELSE IF label # allowLists.groups[1].groupLabel THEN JsFalse
  ELSE LET leafIndex == indexOf(allowLists.groups[1].list, toString(publicKey))
       IN  IF leafIndex = -1 THEN JsFalse
           ELSE \* Buffer.from(merkleRoot) holds the bytes of merkleRoot
                verifyProof(leafIndex, proof, merkleRoot)

\* the guard-group effect: it starts a fetch when wallet and candy machine
\* are both there
guardGroupEffect(w, cm) == IF w # "none" /\ cm THEN fetching \cup {w} ELSE fetching

\* the wallet adapter connects wallet w (or switches to it)
Connect(w) ==
  /\ w # publicKey
  /\ publicKey' = w
  /\ refreshing' = TRUE
  /\ fetching' = guardGroupEffect(w, candyMachine)
  /\ UNCHANGED <<candyMachine, remaining, guardsAndGroups, minting, retryCount,
                 mintedItems, pending, timers, mintCounter>>
  /\ Quiet
  /\ proofMemo(w)
  /\ UNCHANGED <<digestOrder, root, tamper, ret, otherTree, allowLists, verified,
                 hook>>

\* the wallet adapter disconnects
Disconnect ==
  /\ publicKey # "none"
  /\ publicKey' = "none"
  /\ UNCHANGED <<candyMachine, remaining, refreshing, guardsAndGroups, fetching,
                 minting, retryCount, mintedItems, pending, timers, mintCounter>>
  /\ Quiet
  /\ proofMemo("none")
  /\ UNCHANGED <<digestOrder, root, tamper, ret, otherTree, allowLists, verified,
                 hook>>

\* refresh(): fetchCandyMachine resolves with r items remaining
RefreshDone(r) ==
  /\ refreshing
  /\ refreshing' = FALSE
  /\ candyMachine' = TRUE
  /\ remaining' = r
  /\ fetching' = guardGroupEffect(publicKey, TRUE)
  /\ UNCHANGED <<publicKey, guardsAndGroups, minting, retryCount, mintedItems,
                 pending, timers, mintCounter>>
  /\ Quiet
  /\ UNCHANGED <<merkleVars, memoVars>>

\* refresh(): fetchCandyMachine rejects; the error is logged
RefreshFailed ==
  /\ refreshing
  /\ refreshing' = FALSE
  /\ UNCHANGED <<publicKey, candyMachine, remaining, guardsAndGroups, fetching,
                 minting, retryCount, mintedItems, pending, timers, mintCounter>>
  /\ Quiet
  /\ UNCHANGED <<merkleVars, memoVars>>

\* the guard objects held by the calls cs are no longer those of the hook
\* state
outdated(cs) == { [c EXCEPT !.current = FALSE] : c \in cs }

\* the guard-group fetch started for wallet w completes: setGuardsAndGroups
\* puts new guard objects in the hook state, their mint counter at the count
\* n that was fetched
GuardFetchDone(w, gate, n) ==
  /\ w \in fetching
  /\ fetching' = fetching \ {w}
  /\ guardsAndGroups' = parseGuardGroup(w, gate)
  /\ mintCounter' = n
  /\ pending' = outdated(pending)
  /\ timers' = outdated(timers)
  /\ UNCHANGED <<publicKey, candyMachine, remaining, refreshing, minting,
                 retryCount, mintedItems>>
  /\ Quiet
  /\ UNCHANGED <<merkleVars, memoVars>>

\* candyMachineV3.mint as called from the startMint callback c: the call is
\* recorded with the wallet that pays (mx.identity(), the connected wallet)
\* and the allowlist state on screen
mintCallOf(c) ==
  [made |-> TRUE,
   sent |-> c.groups.loaded /\ c.candyMachine /\ c.publicKey # "none",
   payer |-> publicKey,
   loaded |-> guardsAndGroups.loaded,
   isWalletWhitelisted |-> guardStates.isWalletWhitelisted,
   failures |-> c.failures]

\* a branch of startMint that only raises an alert
alertOnly(message) ==
  /\ alert' = message
  /\ mintCall' = NoMintCall
  /\ settled' = NoSettle
  /\ UNCHANGED <<refreshing, minting, pending, mintedItems>>

\* startMint, up to the await of candyMachineV3.mint, run by the callback c
startMint(c) ==
  /\ UNCHANGED <<publicKey, candyMachine, remaining, guardsAndGroups, fetching,
                 retryCount, mintCounter>>
  /\ IF c.publicKey = "none" THEN alertOnly("Wallet or Candy Machine not ready!")
     ELSE IF ~c.guardStates.isStarted THEN alertOnly("Mint has not started yet!")
     ELSE IF c.guardStates.canPayFor = 0 THEN alertOnly("Cannot pay for the mint!")
     ELSE IF c.remaining = 0 THEN alertOnly("Sold out!")
     ELSE IF c.retryCount < 3 THEN
       /\ mintCall' = mintCallOf(c)
       /\ IF ~c.groups.loaded THEN
            \* mint throws before its try block
            /\ alert' = IF hook = "MerkleTree"
                        THEN "Unknown guard group label: default"
                        ELSE "Unknown guard group label"
            /\ settled' = [outcome |-> "unknown label", promise |-> "rejected",
                           counted |-> FALSE]
            /\ UNCHANGED <<refreshing, minting, pending, mintedItems>>
          ELSE IF ~c.candyMachine THEN
            \* thrown inside try: catch rethrows, finally runs
            /\ minting' = FALSE
            /\ refreshing' = TRUE
            /\ UNCHANGED pending
            /\ IF hook = "MerkleTree" THEN
                 /\ alert' = "Candy Machine not loaded yet!"
                 /\ settled' = [outcome |-> "not loaded", promise |-> "rejected",
                                counted |-> FALSE]
                 /\ UNCHANGED mintedItems
               ELSE
                 \* the return of the finally block replaces the throw:
                 \* startMint's await gets [] and setMintedItems([]) runs
                 /\ alert' = ""
                 /\ settled' = [outcome |-> "not loaded", promise |-> "resolved",
                                counted |-> FALSE]
                 /\ mintedItems' = 0
          ELSE
            /\ minting' = TRUE
            /\ pending' = pending \cup {c}
            /\ alert' = ""
            /\ settled' = NoSettle
            /\ UNCHANGED <<refreshing, mintedItems>>
     ELSE alertOnly("Max retries reached. Check RPC or try later.")

\* the mint button is on screen (Home's render) and is clicked
Click ==
  /\ guardStates.isStarted
  /\ publicKey # "none"
  /\ guardStates.isWalletWhitelisted
  /\ Cardinality(pending) + Cardinality(timers) < MaxCalls
  /\ startMint(Closure)
  /\ UNCHANGED timers
  /\ UNCHANGED <<merkleVars, memoVars>>

\* a retry timer set by startMint fires: it calls the callback that set it
TimerFires(c) ==
  /\ c \in timers
  /\ timers' = timers \ {c}
  /\ startMint(c)
  /\ UNCHANGED <<merkleVars, memoVars>>

\* outcomes of mx.candyMachines().mint: a minted NFT, an error whose message
\* holds "429", an error with code 429, any other error
Outcomes == {"minted", "message 429", "code 429", "failed"}

\* the message mint() rethrows
mintMessage(outcome) ==
  IF outcome = "message 429" THEN "429 Too Many Requests"
  ELSE IF outcome = "code 429" THEN "RPC rate limit exceeded. Retrying..."
  ELSE "Minting failed! Please try again!"

\* mutant: the counters grow whenever a mint call finishes
countAfterEveryCall(c, outcome) ==
  IF c.current THEN mintCounter + 1 ELSE mintCounter

\* the mint counter of the hook state once the mint of c has settled: on
\* success nfts = [nft], and the counters of the guard objects the call holds
\* grow by nfts.length
countAfter(c, outcome) ==
  IF outcome = "minted" /\ c.current THEN mintCounter + 1 ELSE mintCounter

\* the awaited mint of callback c settles; refresh() runs in finally
MintSettles(c, outcome) ==
  /\ c \in pending
  /\ pending' = pending \ {c}
  /\ minting' = FALSE
  /\ refreshing' = TRUE
  /\ mintCall' = NoMintCall
  /\ UNCHANGED <<publicKey, candyMachine, remaining, guardsAndGroups, fetching>>
  /\ mintCounter' = countAfter(c, outcome)
  /\ IF outcome = "minted" THEN
       /\ c.current => mintCounter < MaxMints
       /\ mintedItems' = 1
       /\ alert' = ""
       /\ settled' = [outcome |-> outcome, promise |-> "resolved",
                      counted |-> c.current]
       /\ UNCHANGED <<retryCount, timers>>
     ELSE IF hook = "merkletreejs" THEN
       \* the return of the finally block replaces the throw of the catch
       \* block: startMint's await gets [] and setMintedItems([]) runs
       /\ mintedItems' = 0
       /\ alert' = ""
       /\ settled' = [outcome |-> outcome, promise |-> "resolved", counted |-> FALSE]
       /\ UNCHANGED <<retryCount, timers>>
     ELSE IF outcome = "message 429" THEN
       /\ c.failures < MaxFailures
       /\ retryCount' = c.retryCount + 1
       /\ alert' = "RPC rate limit hit. Retrying..."
       /\ timers' = timers \cup {[c EXCEPT !.failures = @ + 1]}
       /\ settled' = [outcome |-> outcome, promise |-> "rejected", counted |-> FALSE]
       /\ UNCHANGED mintedItems
     ELSE
       /\ alert' = mintMessage(outcome)
       /\ settled' = [outcome |-> outcome, promise |-> "rejected", counted |-> FALSE]
       /\ UNCHANGED <<retryCount, timers, mintedItems>>
  /\ UNCHANGED <<merkleVars, memoVars>>

Init == MerkleInit /\ HomeInit

Indexes == -1..Len(data)

Next ==
  \/ ~built /\ \E d \in Lists : Construct(d)
  \/ GetRoot
  \/ \E i \in Indexes : GetProof(i)
  \/ \E k \in 1..MaxLen, v \in TamperValues : ReplaceElement(k, v)
  \/ \E v \in TamperValues : ReplaceRoot(v)
  \/ \E n \in 0..MaxLen : Truncate(n)
  \/ \E v \in TamperValues : Extend(v)
  \/ \E i \in Indexes : VerifyProof(i)
  \/ \E i \in Indexes : VerifyRoot(i)
  \/ \E x \in Items : VerifyClaim(x)
  \/ tamper = "unset" /\ \E d \in OtherLists : BuildOther(d)
  \/ tamper = "unset" /\ \E k \in 1..Len(layers), j \in 0..(MaxLen \div 2) : ReplayNode(k, j)

Spec == Init /\ [][Next]_vars

\* the front-end on its own
HomeNext ==
  \/ \E w \in Wallets : Connect(w)
  \/ Disconnect
  \/ \E r \in 0..MaxItems : RefreshDone(r)
  \/ RefreshFailed
  \/ \E w \in Wallets, gate \in Gates, n \in 0..MaxMints : GuardFetchDone(w, gate, n)
  \/ Click
  \/ \E c \in timers : TimerFires(c)
  \/ \E c \in pending, outcome \in Outcomes : MintSettles(c, outcome)

\* the front-end alone: no tree is built, one digest order is enough
InitHome ==
  /\ MerkleInit /\ digestOrder = 1
  /\ HomeStart /\ allowLists = NoAllowLists
  /\ hook \in Hooks

SpecHome == InitHome /\ [][HomeNext]_vars

\* ------------------------------------------ one wallet's minting session
\* the wallet that stays connected
Minter == "w1"

\* the mint button is clicked while no earlier click is being served
ClickIdle == pending = {} /\ timers = {} /\ Click

\* the page with one wallet: it connects, the candy machine and the guard
\* groups are fetched, the button is clicked, mints settle, timers fire
PageNext ==
  \/ Connect(Minter)
  \/ \E r \in 0..MaxItems : RefreshDone(r)
  \/ \E gate \in Gates, n \in 0..MaxMints : GuardFetchDone(Minter, gate, n)
  \/ ClickIdle
  \/ \E c \in timers : TimerFires(c)
  \/ \E c \in pending, outcome \in Outcomes : MintSettles(c, outcome)

\* identity lists of one address
SingleLists == ListsUpTo(1) \ {<<>>}

\* the page, and next to it the Merkle engine building a tree and giving
\* its root and a proof
SessionNext ==
  \/ PageNext
  \/ ~built /\ \E d \in SingleLists : Construct(d)
  \/ built /\ ret.op = "constructor" /\ GetRoot
  \/ built /\ ret.op = "getRoot" /\ GetProof(0)

SpecSession == InitHome /\ [][SessionNext]_vars

\* the mint button is clicked while a retry timer is waiting and no mint is
\* in flight
ClickDuringRetry ==
  /\ guardStates.isStarted
  /\ publicKey # "none"
  /\ guardStates.isWalletWhitelisted
  /\ ~minting /\ pending = {} /\ timers # {}
  /\ Cardinality(timers) <= MaxCalls
  /\ startMint(Closure)
  /\ UNCHANGED timers
  /\ UNCHANGED <<merkleVars, memoVars>>

OverlapNext == PageNext \/ ClickDuringRetry

SpecOverlap == InitHome /\ [][OverlapNext]_vars

\* ------------------------------------------------- the allowlist hook
\* roots a guard may carry: those of the trees of one identity
MerkleRoots == { getRootOf(NewTree(l).layers) : l \in ListsUpTo(1) \ {<<>>} }

\* the root of the configured group's tree, once it is built
TreeRoot == IF built /\ Len(data) > 0 THEN {getRoot} ELSE {}

\* the guard-group parser calls proofMemo.verifyProof with the merkleRoot of
\* a guard and a group label
VerifyAllowlist(merkleRoot, label) ==
  /\ verified' = [called |-> TRUE, publicKey |-> publicKey,
                  merkleRoot |-> merkleRoot, label |-> label,
                  out |-> hookVerifyProof(merkleRoot, label)]
  /\ UNCHANGED <<merkleVars, allowLists, builds>>
  /\ UNCHANGED <<publicKey, candyMachine, remaining, refreshing, guardsAndGroups,
                 fetching, minting, retryCount, alert, mintedItems, pending,
                 timers, mintCall, hook, settled, mintCounter>>

InitHook ==
  /\ MerkleInit /\ HomeStart
  /\ allowLists \in AllowListOptions
  /\ hook = "MerkleTree"

\* A verifyProof call changes nothing but its record: the states that follow
\* it are those that follow the state before it, so steps are taken from there.
HookNext ==
  \/ ~verified.called /\ \E w \in Wallets : Connect(w)
  \/ ~verified.called /\ Disconnect
  \/ ~verified.called /\ \E r \in MerkleRoots \cup TreeRoot, label \in Labels : VerifyAllowlist(r, label)

SpecHook == InitHook /\ [][HookNext]_vars

\* ------------------------------------------- a list built in every order
\* the identities "a", "b", "c", "d"
OrderIds == { <<Char(96 + i)>> : i \in 1..MaxDistinct }

\* the lists of distinct identities
DistinctLists ==
  { l \in UNION { [1..n -> OrderIds] : n \in 1..MaxDistinct } :
      \A i, j \in 1..Len(l) : l[i] = l[j] => i = j }

\* the orders in which the identities of d can be listed
Orderings(d) ==
  { l \in [1..Len(d) -> { d[i] : i \in 1..Len(d) }] :
      \A i, j \in 1..Len(l) : l[i] = l[j] => i = j }

\* new MerkleTree(d) for a list of distinct identities, then
\* new MerkleTree(e) for the same identities in any order
OrderNext ==
  \/ ~built /\ \E d \in DistinctLists : Construct(d)
  \/ tamper = "unset" /\ built /\ otherTree = NoTree
       /\ \E e \in Orderings(data) : BuildOther(e)

SpecOrder == Init /\ [][OrderNext]_vars

\* ------------------------------------------------------------ properties
N == Len(data)
ValidIndex(i) == i >= 0 /\ i < N
Threw(out) == out[1] \notin {"bool", "returned", "buf", "keccak", "undefined"}
Members == { data[i] : i \in 1..N }
HasDuplicates == Cardinality(Members) < N

\* the held proof and root are the ones the tree gave for the valid index idx
Genuine ==
  /\ built /\ tamper = "none"
  /\ ValidIndex(idx)
  /\ root = getRoot

\* C1. Membership round-trip: for a tree built from a non-empty list
\* (duplicates and odd layers included) and a valid index i,
\* verifyProof(i, getProof(i), getRoot()) and verifyClaim(data[i], getProof(i))
\* return true.
MembershipRoundTrip ==
  /\ (Genuine /\ ret.op = "verifyProof" /\ ret.idx = idx) => ret.out = JsTrue
  /\ (built /\ tamper = "none" /\ ValidIndex(idx) /\ ret.op = "verifyClaim"
        /\ ret.item = data[idx + 1]) => ret.out = JsTrue

MembershipRoundTripWitness ==
  /\ Genuine /\ N = MaxLen /\ HasDuplicates /\ idx = N - 1
  /\ Len(proof) < Len(layers) - 1
  /\ ret.op = "verifyProof" /\ ret.idx = idx /\ ret.out = JsTrue

\* C2. Non-membership: for an identity x that does not occur in the list, no
\* index i makes verifyClaim(x, getProof(i)) return true.
NonMembership ==
  (built /\ tamper = "none" /\ ValidIndex(idx) /\ ret.op = "verifyClaim"
     /\ ret.item \notin Members) => ret.out = JsFalse

NonMembershipWitness ==
  /\ built /\ tamper = "none" /\ ValidIndex(idx) /\ N >= 3
  /\ ret.op = "verifyClaim" /\ ret.item \notin Members /\ ret.out = JsFalse

\* C3. Verification returns true only on exact match: from a triple that
\* verifies, replacing one proof element or the root by a different value,
\* using a different leaf, dropping trailing proof elements or appending
\* further elements makes verifyProof / verifyClaim return false.
Tampered == tamper \in {"element", "root", "truncated", "extended"}

TamperSensitivity ==
  /\ (built /\ Tampered /\ ret.op \in {"verifyProof", "verifyClaim"})
        => ret.out = JsFalse
  /\ (Genuine /\ ret.op = "verifyProof" /\ ValidIndex(ret.idx)
        /\ data[ret.idx + 1] # data[idx + 1]) => ret.out = JsFalse
  /\ (Genuine /\ ret.op = "verifyClaim" /\ ret.item # data[idx + 1])
        => ret.out = JsFalse

TamperSensitivityWitness ==
  /\ built /\ tamper = "truncated" /\ N = MaxTamperLen /\ Len(proof) > 0
  /\ ret.op = "verifyProof" /\ ret.idx = idx /\ ret.out = JsFalse

\* C4. getProof(idx) with idx outside [0, N) fails with an InvalidIndex
\* error and never returns a proof.
InvalidIndexFails ==
  (ret.op = "getProof" /\ ~ValidIndex(ret.idx)) => Threw(ret.out)

\* C5. Building a tree from zero identities fails at construction: no tree
\* without a root is returned.
EmptyBuildFails ==
  (built /\ N = 0) => (Threw(ret.out) /\ ret.op = "constructor")

\* C6. The verifiers never throw: verifyProof, verifyRoot and verifyClaim
\* return a boolean for every leaf or index, proof and root.
VerifierNeverThrows ==
  ret.op \in {"verifyProof", "verifyRoot", "verifyClaim"}
    => ret.out \in {JsTrue, JsFalse}

\* C7. Allowlist verification gates minting: whenever startMint calls
\* candyMachineV3.mint, the guard groups have loaded, the screen's
\* guardStates.isWalletWhitelisted is true and the wallet that pays is one
\* whose allowlist verification is true; before the guard groups have loaded
\* and while isWalletWhitelisted is false no mint is attempted.
MintGatedByAllowlist ==
  mintCall.made =>
    /\ mintCall.loaded
    /\ mintCall.isWalletWhitelisted
    /\ mintCall.payer \in AllowedWallets

\* C8. Odd-node policy: the last element of an odd-length layer is the last
\* element of the next layer, unchanged, and the next layer has length
\* ceil(len / 2).
OddNodePolicy ==
  \A k \in 1..(Len(layers) - 1) :
    LET lower == layers[k]
        upper == layers[k + 1]
    IN  /\ Len(upper) = (Len(lower) + 1) \div 2
        /\ Len(lower) % 2 = 1 => upper[Len(upper)] = lower[Len(lower)]

OddNodePolicyWitness ==
  /\ built /\ N = 5
  /\ Len(layers[2]) = 3
  /\ layers[2][3] = layers[1][5] /\ layers[3][2] = layers[1][5]

\* the combination rule of the specification: Hash(0x01 || min || max)
MinBuf(a, b) == IF BufferCompare(a, b) <= 0 THEN a ELSE b
MaxBuf(a, b) == IF BufferCompare(a, b) <= 0 THEN b ELSE a
internal(a, b) == Keccak(<<Byte(1), MinBuf(a, b), MaxBuf(a, b)>>)
leaf(x) == Keccak(<<Byte(0)>> \o [i \in 1..Len(x) |-> Byte(x[i][2])])

\* C9. Pairwise fold: element i of layer k+1 is the combination of elements
\* 2i and 2i+1 of layer k, for i < floor(len / 2); the root of a 4-identity
\* tree is internal(internal(leaf a, leaf b), internal(leaf c, leaf d)).
PairwiseFold ==
  /\ \A k \in 1..(Len(layers) - 1) :
        \A j \in 1..(Len(layers[k]) \div 2) :
          layers[k + 1][j] = internal(layers[k][2 * j - 1], layers[k][2 * j])
  /\ (built /\ N = 4) =>
        getRoot = internal(internal(leaf(data[1]), leaf(data[2])),
                           internal(leaf(data[3]), leaf(data[4])))

PairwiseFoldWitness ==
  /\ built /\ N = 4 /\ Cardinality(Members) = 3
  /\ BufferCompare(layers[2][1], layers[2][2]) > 0

\* C10. internalHash is commutative per pair: the node stored for a pair is
\* also the hash of the pair taken in the other order, and the layer the pair
\* comes from keeps its positional order.
InternalHashCommutes ==
  /\ \A k \in 1..(Len(layers) - 1) :
        \A j \in 1..(Len(layers[k]) \div 2) :
          layers[k + 1][j] = internalHash(layers[k][2 * j], layers[k][2 * j - 1])
  /\ built => \A i \in 1..N : layers[1][i] = leaf(data[i])

InternalHashCommutesWitness ==
  /\ built /\ N >= 2
  /\ BufferCompare(layers[1][1], layers[1][2]) > 0
  /\ layers[2][1] = Keccak(<<Byte(1), layers[1][2], layers[1][1]>>)

\* C11. Layer 0 of a tree built from N >= 1 identities has length N and its
\* element i is nodeHash of the i-th identity, in input order; duplicates are
\* kept: each occurrence is a leaf at its own index, with the same hash.
LeafLayer ==
  (built /\ N >= 1) =>
    /\ Len(layers[1]) = N
    /\ Len(leafs) = N
    /\ \A i \in 1..N : layers[1][i] = nodeHash(BufferFrom(data[i]))
    /\ \A i, j \in 1..N : (data[i] = data[j]) <=> (layers[1][i] = layers[1][j])

LeafLayerWitness ==
  /\ built /\ N = MaxLen
  /\ data[1] = data[3] /\ data[1] # data[2] /\ data[4] # data[5]
  /\ layers[1][1] = layers[1][3] /\ layers[1][1] # layers[1][2]
  /\ ret.op = "constructor"

RECURSIVE CeilLog2(_)
CeilLog2(n) == IF n <= 1 THEN 0 ELSE 1 + CeilLog2((n + 1) \div 2)

\* C13. A tree built from N >= 1 identities has ceil(log2 N) + 1 layers (one
\* layer when N = 1); its last layer has length 1 and its single element is
\* the root getRoot returns.
LayerCount ==
  (built /\ N >= 1) =>
    /\ Len(layers) = CeilLog2(N) + 1
    /\ Len(layers[Len(layers)]) = 1
    /\ getRoot = layers[Len(layers)][1]
    /\ ret.op = "getRoot" => ret.out = layers[Len(layers)][1]

LayerCountWitness ==
  /\ built /\ N = 5 /\ Len(layers) = 4
  /\ Len(layers[4]) = 1
  /\ ret.op = "getRoot" /\ ret.out = layers[4][1]

RECURSIVE Pow2(_)
Pow2(k) == IF k = 0 THEN 1 ELSE 2 * Pow2(k - 1)

\* the siblings of leaf i from layer k (0-based) up to, and excluding, the
\* root layer: layer k contributes element floor(i / 2^k) XOR 1 when it has one
RECURSIVE SiblingPath(_, _)
SiblingPath(i, k) ==
  IF k >= Len(layers) - 1 THEN <<>>
  ELSE LET pos == i \div Pow2(k)
           sib == IF pos % 2 = 0 THEN pos + 1 ELSE pos - 1
           here == IF sib < Len(layers[k + 1]) THEN <<layers[k + 1][sib + 1]>>
                   ELSE <<>>
       IN  here \o SiblingPath(i, k + 1)

\* C14. For a valid index i, getProof(i) is the bottom-to-top sequence, over
\* the layers below the root layer, of the elements at floor(i / 2^k) XOR 1
\* that exist; a layer without that position and the root layer contribute
\* nothing.
ProofIsSiblingPath ==
  (built /\ tamper = "none" /\ ValidIndex(idx)) =>
    /\ proof = SiblingPath(idx, 0)
    /\ Len(proof) <= Len(layers) - 1

ProofIsSiblingPathWitness ==
  /\ built /\ tamper = "none" /\ N = 5 /\ idx = 2
  /\ ret.op = "getProof" /\ ret.idx = 2
  /\ proof = <<layers[1][4], layers[2][1], layers[3][2]>>

\* the layers below the root layer in which the last element has no sibling
CarriedLevels == { k \in 1..(Len(layers) - 1) : Len(layers[k]) % 2 = 1 }

\* C15. Odd-length handling: in a 3-element and in a 5-element tree the proof
\* of the unpaired last element has no sibling for any level where it is
\* carried forward, so it is shorter than the number of layers minus one, and
\* it verifies against the root; for 3 elements the proof of index 0 has
\* exactly 2 elements.
OddLengthProofs ==
  /\ (Genuine /\ idx = N - 1) =>
        Len(proof) = Len(layers) - 1 - Cardinality(CarriedLevels)
  /\ (Genuine /\ N \in {3, 5} /\ idx = N - 1) =>
        /\ Len(proof) < Len(layers) - 1
        /\ (ret.op = "verifyProof" /\ ret.idx = idx) => ret.out = JsTrue
        /\ (ret.op = "verifyClaim" /\ ret.item = data[N]) => ret.out = JsTrue
  /\ (built /\ tamper = "none" /\ N = 3 /\ idx = 0) => Len(proof) = 2

OddLengthProofsWitness ==
  /\ Genuine /\ N = 5 /\ idx = 4
  /\ Len(layers) = 4 /\ proof = <<layers[3][1]>>
  /\ ret.op = "verifyProof" /\ ret.idx = 4 /\ ret.out = JsTrue

\* the valid indexes the held proof is tried on: the one it was issued for
\* and the one of the sibling leaf
Probes == { i \in {idx, Xor1(idx)} : ValidIndex(i) }

\* C16. The verifier entry points are equivalent: for a valid index i and
\* any proof p the caller holds (as issued or altered, for leaf i or for
\* another leaf), verifyProof(i, p, getRoot()) equals verifyClaim(data[i], p),
\* and verifyRoot(i, p, r) equals verifyProof(i, p, r) for the root r the
\* caller holds, genuine or not.
VerifierEquivalence ==
  /\ (built /\ Ready) =>
        \A i \in Probes :
          /\ verifyProof(i, proof, getRoot) = verifyClaim(data[i + 1], proof)
          /\ verifyRoot(i, proof, root) = verifyProof(i, proof, root)
  /\ ret.op = "verifyRoot" => ret.out = verifyProof(ret.idx, proof, root)

VerifierEquivalenceWitness ==
  /\ Genuine /\ N = MaxLen /\ idx = 1
  /\ ret.op = "verifyRoot" /\ ret.idx = 1 /\ ret.out = JsTrue
  /\ verifyClaim(data[2], proof) = JsTrue

\* C17. Verification works against a root from an independent source: what a
\* verifier returns for a candidate leaf and the held proof is decided by the
\* root the caller holds, not by the root of the locally built tree.
VerifiersUseSuppliedRoot ==
  (built /\ Ready /\ N >= 1 /\ IsBuffer(root)) =>
    /\ \A x \in Items :
          verifyClaim(x, proof)
            = bufEquals(foldProof(nodeHash(BufferFrom(x)), proof), root)
    /\ \A i \in 0..(N - 1) :
          verifyProof(i, proof, root)
            = bufEquals(foldProof(nodeHash(BufferFrom(data[i + 1])), proof), root)

\* C18. A tree is never mutated after construction: no call on it (getRoot,
\* getProof, the verifiers) and no construction of another tree changes its
\* data, leafs, layers or root, so a proof obtained earlier is the proof
\* getProof gives for the same index after any later calls.
TreeImmutable ==
  /\ [][built => /\ built'
                 /\ data' = data /\ leafs' = leafs /\ layers' = layers
                 /\ getRootOf(layers') = getRootOf(layers)]_vars
  /\ []((built /\ tamper = "none") => proof = getProof(idx))

TreeImmutableWitness ==
  /\ built /\ N = MaxLen /\ tamper = "none" /\ ValidIndex(idx)
  /\ root = getRoot /\ proof = getProof(idx)
  /\ ret.op = "verifyClaim" /\ ret.out = JsTrue

\* C19. Domain separation: an internal node cannot be replayed as a leaf.
\* verifyClaim on the identity made of the node's child bytes, smaller child
\* first, with the node's own proof path, returns false.
DomainSeparation ==
  tamper = "replay" =>
    /\ ret.op = "verifyClaim"
    /\ ret.out = JsFalse
    /\ \A k \in 1..Len(layers) : \A j \in 1..Len(layers[k]) :
          nodeHash(BufferFrom(ret.item)) # layers[k][j]

DomainSeparationWitness ==
  /\ tamper = "replay" /\ N = 4
  /\ ret.item = <<MinBuf(layers[1][3], layers[1][4]), MaxBuf(layers[1][3], layers[1][4])>>
  /\ proof = <<layers[2][1]>>
  /\ foldProof(internal(layers[1][3], layers[1][4]), proof) = getRoot
  /\ ret.out = JsFalse

\* the tree over a list with its hashes forgotten: a node is the unordered
\* pair of its children, an unpaired node is carried up as it is
RECURSIVE ShapeOf(_)
ShapeOf(nodes) ==
  IF Len(nodes) <= 1 THEN nodes
  ELSE ShapeOf([j \in 1..((Len(nodes) + 1) \div 2) |->
                  IF 2 * j <= Len(nodes)
                  THEN <<"node", {nodes[2 * j - 1], nodes[2 * j]}>>
                  ELSE nodes[2 * j - 1]])
Shape(l) == ShapeOf([i \in 1..Len(l) |-> <<"leaf", l[i]>>])

\* the second tree is built from the first tree's distinct identities, in
\* another order
Reordered ==
  /\ built /\ otherTree.built /\ N >= 1 /\ ~HasDuplicates
  /\ Len(otherTree.data) = N
  /\ { otherTree.data[i] : i \in 1..N } = Members
  /\ otherTree.data # data

PairsOf(nodes) ==
  { <<MinBuf(nodes[2 * j - 1], nodes[2 * j]), MaxBuf(nodes[2 * j - 1], nodes[2 * j])>> :
      j \in 1..(Len(nodes) \div 2) }

\* the second order leaves the sorted pairs of every level as they were
SymmetricCase ==
  \A k \in 1..Len(layers) : PairsOf(otherTree.layers[k]) = PairsOf(layers[k])

\* C21. Order sensitivity with its edge case: listing distinct identities in
\* another order changes the root, except when the new order leaves the
\* lexicographic min/max of every pair unchanged at every level (as when the
\* two members of one sibling pair are exchanged); then the root is unchanged.
OrderSensitivity ==
  Reordered =>
    /\ SymmetricCase => getRootOf(otherTree.layers) = getRoot
    /\ ~SymmetricCase => getRootOf(otherTree.layers) # getRoot
    /\ (\E j \in 1..(N \div 2) :
          otherTree.data = [data EXCEPT ![2 * j - 1] = data[2 * j],
                                        ![2 * j] = data[2 * j - 1]])
          => SymmetricCase

OrderSensitivityWitness ==
  /\ Reordered /\ N = 4
  /\ otherTree.data = <<data[1], data[2], data[4], data[3]>>
  /\ SymmetricCase
  /\ otherTree.layers[1] # layers[1]
  /\ getRootOf(otherTree.layers) = getRoot

\* the one allowlist group the hook is configured with
Group == allowLists.groups[1]

\* the wallet of the last verifyProof call is on the group's list, and the
\* root recomputed from its leaf and the proof of its first position is r
OnListUnder(r) ==
  LET address == toString(verified.publicKey)
      tree == NewTree(Group.list)
      i == indexOf(Group.list, address)
  IN  /\ verified.publicKey # "none"
      /\ i # -1
      /\ foldProof(leaf(address), proofFrom(tree.layers, 1, i)) = r

\* C22. In the hook built on the custom tree, verifyProof(merkleRoot, label)
\* returns true only if a tree exists for the label, the connected wallet's
\* address is on that group's list, and the root recomputed from the wallet's
\* leaf and stored proof equals merkleRoot; for an unknown label, a wallet
\* not on the list or a different root it returns false.
HookVerifyProofSound ==
  (verified.called /\ ~noAllowLists) =>
    /\ verified.out \in {JsTrue, JsFalse}
    /\ verified.out = JsTrue
         <=> (verified.label = Group.groupLabel /\ OnListUnder(verified.merkleRoot))
    /\ verified.out = JsTrue
         => verified.merkleRoot = getRootOf(NewTree(Group.list).layers)

HookVerifyProofSoundWitness ==
  /\ verified.called /\ ~noAllowLists
  /\ Len(Group.list) = 3
  /\ verified.publicKey = "w2"
  /\ indexOf(Group.list, toString("w2")) = 2
  /\ verified.out = JsTrue

\* C23. When no allowlist is configured (allowLists absent or empty, as with
\* the empty options object Home passes), the hook's verifyProof returns true
\* for every root and every label, and no tree is ever built.
NoAllowlistPassesAll ==
  noAllowLists =>
    /\ ~built /\ builds = 0
    /\ verified.called => verified.out = JsTrue

NoAllowlistPassesAllWitness ==
  /\ allowLists = [given |-> TRUE, groups |-> <<>>]
  /\ verified.called /\ verified.publicKey = "w2" /\ verified.label = "vip"
  /\ verified.out = JsTrue
  /\ ~built

\* C30. The Builder runs once per allowlist: for an unchanged allowlist the
\* tree of a group is built a single time, and a change of the connected
\* wallet regenerates only that wallet's proof without rebuilding the tree.
BuiltOncePerAllowlist ==
  builds <= Len(allowLists.groups)

\* C24. When minting fails inside the hook's mint() after the guard-group
\* check (candy machine not loaded, signing error, RPC error), the returned
\* promise rejects with an Error carrying the mapped message, so that the
\* caller's catch branch runs and raises an alert; it does not resolve with
\* an empty list.
FailedMintRejects ==
  settled.outcome \in {"not loaded", "message 429", "code 429", "failed"} =>
    /\ settled.promise = "rejected"
    /\ alert # ""

\* C25. startMint retries at most 3 times after rate-limit (429) failures:
\* once 3 such failures have occurred along the timer-scheduled calls, no
\* further call to mint is made.
AtMostThreeRetries ==
  mintCall.made => mintCall.failures < 3

\* C26. retryCount is never reset, and once it has reached 3 every later
\* startMint call that passes the wallet, start, payment and sold-out checks
\* ends in the 'Max retries reached' alert without calling mint.
RetryCountSticks ==
  retryCount >= 3 => ~mintCall.made

\* C29. Guard-group results are not applied out of order: once every fetch
\* has completed, guardsAndGroups holds the result computed for the wallet
\* that is connected, not the result of an older fetch.
GuardGroupsInOrder ==
  (fetching = {} /\ publicKey # "none" /\ guardsAndGroups.loaded)
    => guardsAndGroups.wallet = publicKey

\* C27. status.minting is true exactly while a mint() call is in flight: it
\* is set before the transaction is sent, cleared when the call finishes, and
\* stays true while any of several overlapping mint() calls is still running.
MintingWhileInFlight ==
  minting <=> pending # {}

\* a step in which setGuardsAndGroups puts new guard objects, with their own
\* counters, in the hook state
GuardsReplaced == fetching' # fetching /\ fetching' \subseteq fetching

\* a step of the Merkle engine
MerkleStep == ret' # ret

====
